---- MODULE Spec2Model ----
(***************************************************************************)
(* Lancet2: the window scheduler's driver loop (src/src/run_pipeline.cpp), *)
(* a de Bruijn graph node (src/src/node.cpp) and the window builder        *)
(* (src/src/window_builder.cpp).                                           *)
(*                                                                         *)
(* The specifications share the variables:                                 *)
(*   PipelineSpec  the driver loop of RunPipeline and its result queue     *)
(*   BufferSpec    RequiredBufferWindows as a pure function                *)
(*   StepSpec      WindowBuilder::StepSize as a pure function              *)
(*   RegionSpec    WindowBuilder::ParseRegion as a pure function           *)
(*   BedSpec       WindowBuilder::ParseBed, line by line                   *)
(*   WindowSpec    WindowBuilder::BuildWindows, region by region           *)
(*   NodeSpec      EmplaceEdge / EraseEdge / ClearEdges on one Node        *)
(*   AnnotSpec     the annotation updates and MergeBuddy on one Node       *)
(* Each one leaves the variables of the others at their idle values.       *)
(***************************************************************************)
EXTENDS Integers, Sequences, FiniteSets, TLC

\* ------------------------------------------------------------------ bounds
\* largest number of windows in allwindows
MaxWindows == 6
\* largest look-ahead numBufWindows handed to the driver loop
MaxBuf == 3
\* maxIndelLength is tried at 150, 300, ..., 150 * MaxIndelUnits
MaxIndelUnits == 4
\* windowLength is tried at 100, 150, ..., 100 + 50 * MaxWindowUnits
MaxWindowUnits == 6
\* node identities are 0 .. MaxNodeID
MaxNodeID == 3
\* largest number of EmplaceEdge calls on the node
MaxEmplace == 3
\* std::size_t wraps modulo 2^64; the model wraps modulo 2^SizeTBits, far
\* above every count the other bounds allow
SizeTBits == 16
\* StepSize is tried at window lengths 100, 200, ..., 100 * MaxStepUnits
MaxStepUnits == 55
\* region strings have at most MaxRegionLen characters
MaxRegionLen == 5
\* a BED file has at most MaxBedLines lines of at most MaxBedColumns columns
MaxBedLines == 2
MaxBedColumns == 4
\* BuildWindows gets at most MaxRegions input regions
MaxRegions == 2
\* windowLength of the builder is 100, 200, ..., 100 * MaxBwWindowUnits
MaxBwWindowUnits == 2
\* a slicing loop whose step is 0 is followed until results holds
\* MaxBwResults windows
MaxBwResults == 6
\* at most MaxFailedLookups reference lookups of one call fail
MaxFailedLookups == 1
\* BuildWindows is called at most MaxBuildCalls times in the process
MaxBuildCalls == 2
\* the k-mer length k handed to MergeBuddy
KmerSize == 3
\* largest number of MergeBuddy calls on the node
MaxMerges == 2
\* largest number of reads pushed into quals, and into covs, by the updates
MaxReads == 1

VARIABLES
    \* ---- RunPipeline
    numTotal,        \* allwindows.size()
    numBufWindows,   \* look-ahead B
    windowQueue,     \* window indices still in InWindowQueue
    resultQueue,     \* completion records in OutResultQueue, oldest first
    doneWindows,     \* absl::FixedArray<bool>, indexed 0 .. numTotal-1
    idxToFlush,
    numDone,
    arrived,         \* result.windowIdx of every record dequeued so far
    flushCalls,      \* arguments of the FlushWindow calls made so far
    flushAllCalls,   \* per FlushAll call: <<numDone, Len(flushCalls)>> then
    pc,              \* "loop" | "exited" | "idle"
    \* ---- RequiredBufferWindows
    params,          \* CliParams fields read by RequiredBufferWindows
    bufWindows,      \* its return value once bufPc = "returned"
    bufPc,           \* "call" | "returned" | "idle"
    \* ---- Node
    node,            \* the Node's identity and edge fields
    emplaceCalls,    \* number of EmplaceEdge calls made on the node
    lastCall,        \* name of the last Node method called, or "idle"
    \* ---- WindowBuilder::StepSize
    stepArgs,        \* its arguments pct_overlap and window_length
    stepResult,      \* its return value once stepPc = "returned"
    stepPc,          \* "call" | "returned" | "idle"
    \* ---- WindowBuilder::ParseRegion
    regionStr,       \* region_str, a sequence of characters
    regionResult,    \* the StatusOr returned once regionPc = "returned"
    regionPc,        \* "call" | "returned" | "idle"
    \* ---- WindowBuilder::ParseBed
    bedFile,         \* the lines of the file, each a sequence of characters
    lineNum,         \* lines read by std::getline so far
    bedResults,      \* the vector results of ParseBed
    bedStatus,       \* "reading" | the status returned | "idle"
    \* ---- WindowBuilder::BuildWindows
    wb,              \* the WindowBuilder's fields and the reference's contigs
    regionIdx,       \* position of inRegion in inputRegions, from 1
    currWindowStart,
    results,         \* the vector results of BuildWindows
    bwPc,            \* "enter" | "region" | "slice" | "sort" | "returned" |
                     \* "died" | "idle"
    bwStatus,        \* status of the call: "ok" or the error returned
    currWindowIdx,   \* the function-local static counter
    bwCalls,         \* BuildWindows calls started in this process
    \* ---- Node annotations and MergeBuddy
    kmerNode,        \* the node MergeBuddy is called on
    buddyNode,       \* the buddy handed to it
    mergeCalls,      \* MergeBuddy calls made so far
    hpUpdates,       \* arguments of the hpData.Update calls made so far
    annotCall        \* last annotation method called, or "idle"

pipeVars == <<numTotal, numBufWindows, windowQueue, resultQueue, doneWindows,
              idxToFlush, numDone, arrived, flushCalls, flushAllCalls, pc>>
bufVars == <<params, bufWindows, bufPc>>
nodeVars == <<node, emplaceCalls, lastCall>>
stepVars == <<stepArgs, stepResult, stepPc>>
regionVars == <<regionStr, regionResult, regionPc>>
bedVars == <<bedFile, lineNum, bedResults, bedStatus>>
winVars == <<wb, regionIdx, currWindowStart, results, bwPc, bwStatus,
             currWindowIdx, bwCalls>>
builderVars == <<stepVars, regionVars, bedVars, winVars>>
annotVars == <<kmerNode, buddyNode, mergeCalls, hpUpdates, annotCall>>
vars == <<pipeVars, bufVars, nodeVars, builderVars, annotVars>>

Min(a, b) == IF a < b THEN a ELSE b
Max(a, b) == IF a > b THEN a ELSE b

PipeIdle ==
    /\ numTotal = 0 /\ numBufWindows = 0 /\ windowQueue = {}
    /\ resultQueue = <<>> /\ doneWindows = <<>> /\ idxToFlush = 0
    /\ numDone = 0 /\ arrived = <<>> /\ flushCalls = <<>>
    /\ flushAllCalls = <<>> /\ pc = "idle"
BufIdle == params = "none" /\ bufWindows = 0 /\ bufPc = "idle"
NodeIdle == node = "none" /\ emplaceCalls = 0 /\ lastCall = "idle"
StepIdle == stepArgs = "none" /\ stepResult = 0 /\ stepPc = "idle"
RegionIdle == regionStr = <<>> /\ regionResult = "none" /\ regionPc = "idle"
BedIdle ==
    bedFile = <<>> /\ lineNum = 0 /\ bedResults = <<>> /\ bedStatus = "idle"
WinIdle ==
    /\ wb = "none" /\ regionIdx = 0 /\ currWindowStart = 0 /\ results = <<>>
    /\ bwPc = "idle" /\ bwStatus = "ok" /\ currWindowIdx = 0 /\ bwCalls = 0
BuilderIdle == StepIdle /\ RegionIdle /\ BedIdle /\ WinIdle
AnnotIdle ==
    /\ kmerNode = "none" /\ buddyNode = "none" /\ mergeCalls = 0
    /\ hpUpdates = <<>> /\ annotCall = "idle"

\* ================================================================ pipeline

\* doneWindows after construction and fill(false): indices 0 .. n-1
FilledFalse(n) == [i \in 0..(n - 1) |-> FALSE]

\* the lambda allWindowsUptoDone: all_of over [cbegin, lastItr)
allWindowsUptoDone(done, size, win_idx) ==
    LET last == IF win_idx >= size THEN size ELSE win_idx
    IN  \A i \in 0..(last - 1) : done[i]

LoopContinuesOffByOne(done, total) == done + 1 < total

\* the loop condition of the driver
LoopContinues(done, total) == done < total

AdvanceIdxToFlushStuck(idx) == idx

AdvanceIdxToFlushTwice(idx) == idx + 2

\* idxToFlush++
AdvanceIdxToFlush(idx) == idx + 1

PipelineInit ==
    /\ numTotal \in 0..MaxWindows
    /\ numBufWindows \in 0..MaxBuf
    /\ windowQueue = 0..(numTotal - 1)
    /\ resultQueue = <<>>
    /\ doneWindows = FilledFalse(numTotal)
    /\ idxToFlush = 0
    /\ numDone = 0
    /\ arrived = <<>>
    /\ flushCalls = <<>>
    /\ flushAllCalls = <<>>
    /\ pc = "loop"
    /\ BufIdle /\ NodeIdle /\ BuilderIdle /\ AnnotIdle

\* A worker takes a window off the input queue, runs the assembler and
\* pushes the completion record; workers finish in any order.
WorkerProcess(w) ==
    /\ pc = "loop"
    /\ w \in windowQueue
    /\ windowQueue' = windowQueue \ {w}
    /\ resultQueue' = Append(resultQueue, w)
    /\ UNCHANGED <<numTotal, numBufWindows, doneWindows, idxToFlush, numDone,
                   arrived, flushCalls, flushAllCalls, pc>>
    /\ UNCHANGED <<bufVars, nodeVars, builderVars, annotVars>>

\* One iteration of the while loop: wait_dequeue, mark, at most one flush.
DriverIteration ==
    /\ pc = "loop"
    /\ LoopContinues(numDone, numTotal)
    /\ resultQueue # <<>>
    /\ LET windowIdx == Head(resultQueue)
           marked == [doneWindows EXCEPT ![windowIdx] = TRUE]
       IN  /\ resultQueue' = Tail(resultQueue)
           /\ numDone' = numDone + 1
           /\ arrived' = Append(arrived, windowIdx)
           /\ doneWindows' = marked
           /\ IF allWindowsUptoDone(marked, numTotal, idxToFlush + numBufWindows)
              THEN /\ flushCalls' = Append(flushCalls, idxToFlush)
                   /\ idxToFlush' = AdvanceIdxToFlush(idxToFlush)
              ELSE UNCHANGED <<flushCalls, idxToFlush>>
    /\ UNCHANGED <<numTotal, numBufWindows, windowQueue, flushAllCalls, pc>>
    /\ UNCHANGED <<bufVars, nodeVars, builderVars, annotVars>>

\* Loop exit: FlushAll, close the VCF, collect the futures, exit.
DriverFinish ==
    /\ pc = "loop"
    /\ ~LoopContinues(numDone, numTotal)
    /\ flushAllCalls' = Append(flushAllCalls, <<numDone, Len(flushCalls)>>)
    /\ pc' = "exited"
    /\ UNCHANGED <<numTotal, numBufWindows, windowQueue, resultQueue,
                   doneWindows, idxToFlush, numDone, arrived, flushCalls>>
    /\ UNCHANGED <<bufVars, nodeVars, builderVars, annotVars>>

PipelineNext ==
    \/ \E w \in 0..(MaxWindows - 1) : WorkerProcess(w)
    \/ DriverIteration
    \/ DriverFinish

PipelineSpec == PipelineInit /\ [][PipelineNext]_vars

\* Workers are OS threads and the driver blocks only on the result queue:
\* every step that stays enabled is eventually taken.
FairPipelineSpec ==
    /\ PipelineInit /\ [][PipelineNext]_vars
    /\ \A w \in 0..(MaxWindows - 1) : WF_vars(WorkerProcess(w))
    /\ WF_vars(DriverIteration)
    /\ WF_vars(DriverFinish)

\* ================================================= RequiredBufferWindows

\* std::round of num / den for num >= 0, den > 0: halves away from zero
RoundDiv(num, den) == (2 * num + den) \div (2 * den)

\* std::ceil of num / den for num >= 0, den > 0
CeilDiv(num, den) == (num + den - 1) \div den

\* 2^s modulo 100: from 2^2 on the powers of 2 repeat modulo 100 with
\* period 20
Pow2Mod100(s) == IF s < 2 THEN 2^s ELSE (2^(2 + ((s - 2) % 20))) % 100

\* the binary exponent of x >= 1: the e with 2^e <= x < 2^(e+1)
RECURSIVE Exponent(_)
Exponent(x) == IF x < 2 THEN 0 ELSE 1 + Exponent(x \div 2)

\* the double c/100.0, 1 <= c <= 100, has its last mantissa bit at
\* 2^-(52+t), where t is the least t with c * 2^t >= 100
RECURSIVE QuotientShift(_, _)
QuotientShift(c, t) == IF c * 2^t >= 100 THEN t ELSE QuotientShift(c, t + 1)

\* static_cast<double>(100 - pct) / 100.0 is the nearest double to c/100.
\* With s = 52 + QuotientShift its mantissa is c * 2^s / 100 rounded to the
\* nearest integer; this is the remainder (c * 2^s) mod 100 that the rounding
\* drops (1..49: the double lies below c/100) or fills up (51..99: above).
\* The remainder is never 50, since 4 divides c * 2^s.
QuotientRemainder(c) == (c * Pow2Mod100(52 + QuotientShift(c, 0))) % 100

\* rawVal = fl(fl(c / 100.0) * len) falls below the exact product c*len/100
\* when that product is an integer T and the quotient's deficit,
\* r * len / (100 * 2^(52+t)), exceeds half the spacing 2^(e-52) of the
\* doubles below T, e the binary exponent of T:  r * len > 100 * 2^(e+t-1).
RawValBelowExact(c, len) ==
    LET r == QuotientRemainder(c)
        t == QuotientShift(c, 0)
        e == Exponent((c * len) \div 100)
    IN  /\ (c * len) % 100 = 0
        /\ r \in 1..49
        /\ 2 * r * len > 100 * 2^(e + t)

\* WindowBuilder::StepSize: round(((100 - pct) / 100.0 * len) / 100.0) * 100
\* evaluated in IEEE doubles.  std::round sees the exact quotient except at a
\* tie, c * len = 5000 mod 10000: there rawVal / 100.0 is x.5 when rawVal is
\* exact and just below x.5 when rawVal fell below, and round() then goes
\* down instead of up.
StepSize(pct_overlap, window_length) ==
    LET c == 100 - pct_overlap
    IN  IF (c * window_length) % 10000 = 5000
           /\ RawValBelowExact(c, window_length)
        THEN (RoundDiv(c * window_length, 10000) - 1) * 100
        ELSE RoundDiv(c * window_length, 10000) * 100

RequiredBufferWindowsFloor(p) ==
    LET maxFlankLen == Max(p.maxIndelLength, p.windowLength)
        windowStep == StepSize(p.pctOverlap, p.windowLength)
    IN  3 * (maxFlankLen \div windowStep)

\* RequiredBufferWindows for a non-zero step: 3.0 * std::ceil(flank / step)
RequiredBufferWindows(p) ==
    LET maxFlankLen == Max(p.maxIndelLength, p.windowLength)
        windowStep == StepSize(p.pctOverlap, p.windowLength)
    IN  3 * CeilDiv(maxFlankLen, windowStep)

IndelLengths == {150 * i : i \in 1..MaxIndelUnits}
WindowLengths == {100 + 50 * i : i \in 0..MaxWindowUnits}
PctOverlaps == 0..99

\* With a zero step the quotient is +inf and its conversion to std::size_t
\* is undefined: any value may come out.
UndefinedSizeT == 0..MaxBuf

BufferInit ==
    /\ params \in [maxIndelLength : IndelLengths,
                   windowLength : WindowLengths,
                   pctOverlap : PctOverlaps]
    /\ bufWindows = 0
    /\ bufPc = "call"
    /\ PipeIdle /\ NodeIdle /\ BuilderIdle /\ AnnotIdle

CallRequiredBufferWindows ==
    /\ bufPc = "call"
    /\ bufPc' = "returned"
    /\ IF StepSize(params.pctOverlap, params.windowLength) = 0
       THEN bufWindows' \in UndefinedSizeT
       ELSE bufWindows' = RequiredBufferWindows(params)
    /\ UNCHANGED params
    /\ UNCHANGED <<pipeVars, nodeVars, builderVars, annotVars>>

BufferNext == CallRequiredBufferWindows

BufferSpec == BufferInit /\ [][BufferNext]_vars

\* ---------------------------------------------------------------- StepSize

StepLengths == {100 * i : i \in 1..MaxStepUnits}

StepInit ==
    /\ stepArgs \in [pct_overlap : PctOverlaps, window_length : StepLengths]
    /\ stepResult = 0
    /\ stepPc = "call"
    /\ PipeIdle /\ BufIdle /\ NodeIdle /\ AnnotIdle
    /\ RegionIdle /\ BedIdle /\ WinIdle

CallStepSize ==
    /\ stepPc = "call"
    /\ stepPc' = "returned"
    /\ stepResult' = StepSize(stepArgs.pct_overlap, stepArgs.window_length)
    /\ UNCHANGED stepArgs
    /\ UNCHANGED <<pipeVars, bufVars, nodeVars, annotVars>>
    /\ UNCHANGED <<regionVars, bedVars, winVars>>

StepNext == CallStepSize

StepSpec == StepInit /\ [][StepNext]_vars

\* ------------------------------------------------------- StepSize claims

\* the value the exact arithmetic would give: (100 - pct) * len / 100 rounded
\* to the nearest hundred, halves up
StepSizeExact(pct_overlap, window_length) ==
    RoundDiv((100 - pct_overlap) * window_length, 10000) * 100


StepReturned(pct, len) ==
    /\ stepPc = "returned"
    /\ stepArgs.pct_overlap = pct
    /\ stepArgs.window_length = len

\* C17: for overlap percentages 0..99 and window lengths of at least 100 the
\* step is a non-negative multiple of 100 equal to (100 - pct) * L / 100
\* rounded to the nearest hundred, halves up; StepSize(0, 600) = 600,
\* StepSize(50, 600) = 300, StepSize(25, 600) = 500, StepSize(99, 600) = 0.
C17_NearestHundred ==
    stepPc = "returned" =>
        /\ stepResult >= 0
        /\ stepResult % 100 = 0
        /\ stepResult =
               StepSizeExact(stepArgs.pct_overlap, stepArgs.window_length)
        /\ StepReturned(0, 600) => stepResult = 600
        /\ StepReturned(50, 600) => stepResult = 300
        /\ StepReturned(25, 600) => stepResult = 500
        /\ StepReturned(99, 600) => stepResult = 0

\* ============================================================ ParseRegion

\* INT64_MAX is 2^63 - 1; the model uses the largest integer of the checker,
\* far above every position a region string of MaxRegionLen characters names
INT64_MAX == 2147483647

\* the characters region strings are made of: a letter, two digits and the
\* two delimiters
RegionChars == {"c", "1", "2", ":", "-"}
RegionStrings == UNION {[1..n -> RegionChars] : n \in 0..MaxRegionLen}

IsDelimiter(ch) == ch \in {":", "-"}
IsDigit(ch) == ch \in {"1", "2"}
DigitValue(ch) == IF ch = "1" THEN 1 ELSE 2

\* absl::StrSplit(region_str, absl::ByAnyChar(":-")): the pieces between the
\* delimiters, empty pieces kept; the empty string gives one empty piece.
\* cur is the piece being read.
RECURSIVE StrSplit(_, _)
StrSplit(str, cur) ==
    IF str = <<>> THEN <<cur>>
    ELSE IF IsDelimiter(Head(str))
         THEN <<cur>> \o StrSplit(Tail(str), <<>>)
         ELSE StrSplit(Tail(str), Append(cur, Head(str)))

\* std::strtoull(token, nullptr, 10): the value of the leading digits, 0 when
\* there are none (tokens hold neither white space nor a sign)
RECURSIVE StrToULL(_, _)
StrToULL(token, acc) ==
    IF token = <<>> \/ ~IsDigit(Head(token)) THEN acc
    ELSE StrToULL(Tail(token), 10 * acc + DigitValue(Head(token)))

\* WindowBuilder::ParseRegion
ParseRegion(region_str) ==
    LET tokens == StrSplit(region_str, <<>>)
        winStart == IF Len(tokens) >= 2
                    THEN Max(StrToULL(tokens[2], 0) - 1, 0)
                    ELSE 0
        winEnd == IF Len(tokens) = 3
                  THEN StrToULL(tokens[3], 0) - 1
                  ELSE INT64_MAX
    IN  IF tokens = <<>> \/ Len(tokens) > 3
        THEN [status |-> "InvalidArgument", value |-> <<>>]
        ELSE [status |-> "ok", value |-> <<tokens[1], winStart, winEnd>>]

RegionInit ==
    /\ regionStr \in RegionStrings
    /\ regionResult = "none"
    /\ regionPc = "call"
    /\ PipeIdle /\ BufIdle /\ NodeIdle /\ AnnotIdle
    /\ StepIdle /\ BedIdle /\ WinIdle

CallParseRegion ==
    /\ regionPc = "call"
    /\ regionPc' = "returned"
    /\ regionResult' = ParseRegion(regionStr)
    /\ UNCHANGED regionStr
    /\ UNCHANGED <<pipeVars, bufVars, nodeVars, annotVars>>
    /\ UNCHANGED <<stepVars, bedVars, winVars>>

RegionNext == CallParseRegion

RegionSpec == RegionInit /\ [][RegionNext]_vars

\* ---------------------------------------------------- ParseRegion claims

\* position of the first ch in str, 0 when there is none
RECURSIVE IndexOf(_, _, _)
IndexOf(str, ch, i) ==
    IF i > Len(str) THEN 0
    ELSE IF str[i] = ch THEN i ELSE IndexOf(str, ch, i + 1)

IsName(str) == str # <<>> /\ \A i \in 1..Len(str) : ~IsDelimiter(str[i])
IsNumber(str) == str # <<>> /\ \A i \in 1..Len(str) : IsDigit(str[i])

\* the decimal value of a string of digits
RECURSIVE NumberValue(_)
NumberValue(str) ==
    IF str = <<>> THEN 0
    ELSE 10 * NumberValue(SubSeq(str, 1, Len(str) - 1))
            + DigitValue(str[Len(str)])

\* what the region grammar name | name:start | name:start-end assigns to a
\* string: the region, or InvalidArgument when the string is not of the
\* grammar
RegionOf(str) ==
    LET colon == IndexOf(str, ":", 1)
        name == IF colon = 0 THEN str ELSE SubSeq(str, 1, colon - 1)
        rest == IF colon = 0 THEN <<>> ELSE SubSeq(str, colon + 1, Len(str))
        dash == IndexOf(rest, "-", 1)
        start == IF dash = 0 THEN rest ELSE SubSeq(rest, 1, dash - 1)
        end == IF dash = 0 THEN <<>> ELSE SubSeq(rest, dash + 1, Len(rest))
        invalid == [status |-> "InvalidArgument", value |-> <<>>]
    IN  IF ~IsName(name) THEN invalid
        ELSE IF colon = 0
        THEN [status |-> "ok", value |-> <<name, 0, INT64_MAX>>]
        ELSE IF ~IsNumber(start) THEN invalid
        ELSE IF dash = 0
        THEN [status |-> "ok",
              value |-> <<name, NumberValue(start) - 1, INT64_MAX>>]
        ELSE IF ~IsNumber(end) THEN invalid
        ELSE [status |-> "ok",
              value |-> <<name, NumberValue(start) - 1, NumberValue(end) - 1>>]

\* C15: ParseRegion maps name to (name, 0, INT64_MAX), name:start to
\* (name, start-1, INT64_MAX) and name:start-end to (name, start-1, end-1),
\* and returns InvalidArgument for every other string, the string ":" among
\* them.
C15_RegionGrammar ==
    regionPc = "returned" =>
        /\ regionResult = RegionOf(regionStr)
        /\ regionStr = <<":">> => regionResult.status = "InvalidArgument"

\* =============================================================== ParseBed

\* A line of the file is the sequence of its fields between the tabs, each a
\* sequence of characters; the empty line is one empty field.
BedFields == {<<>>, <<"1">>, <<"c">>}
BedLines == UNION {[1..n -> BedFields] : n \in 1..MaxBedColumns}

\* absl::StrSplit(line, absl::ByChar('\t'), absl::SkipEmpty()): the fields
\* of the line without the empty ones
RECURSIVE SkipEmpty(_)
SkipEmpty(fields) ==
    IF fields = <<>> THEN <<>>
    ELSE IF Head(fields) = <<>> THEN SkipEmpty(Tail(fields))
         ELSE <<Head(fields)>> \o SkipEmpty(Tail(fields))

\* absl::SimpleAtoi: succeeds on a non-empty string of digits
SimpleAtoi(token) ==
    IF token # <<>> /\ \A i \in 1..Len(token) : IsDigit(token[i])
    THEN [ok |-> TRUE, value |-> StrToULL(token, 0)]
    ELSE [ok |-> FALSE, value |-> 0]

BedInit ==
    /\ bedFile = <<>>
    /\ lineNum = 0
    /\ bedResults = <<>>
    /\ bedStatus = "reading"
    /\ PipeIdle /\ BufIdle /\ NodeIdle /\ AnnotIdle
    /\ StepIdle /\ RegionIdle /\ WinIdle

\* one iteration of the while loop of ParseBed: std::getline delivers the
\* next line of the file
ReadBedLine ==
    /\ bedStatus = "reading"
    /\ Len(bedFile) < MaxBedLines
    /\ \E line \in BedLines :
          LET tokens == SkipEmpty(line)
          IN  /\ bedFile' = Append(bedFile, line)
              /\ lineNum' = lineNum + 1
              /\ IF Len(tokens) # 3
                 THEN bedStatus' = "InvalidArgument" /\ UNCHANGED bedResults
                 ELSE IF ~SimpleAtoi(tokens[2]).ok \/ ~SimpleAtoi(tokens[3]).ok
                 THEN bedStatus' = "InternalError" /\ UNCHANGED bedResults
                 ELSE /\ bedResults' =
                            Append(bedResults, <<tokens[1],
                                                 SimpleAtoi(tokens[2]).value,
                                                 SimpleAtoi(tokens[3]).value>>)
                      /\ UNCHANGED bedStatus
    /\ UNCHANGED <<pipeVars, bufVars, nodeVars, annotVars>>
    /\ UNCHANGED <<stepVars, regionVars, winVars>>

\* std::getline fails at the end of the file: ParseBed returns results
BedEndOfFile ==
    /\ bedStatus = "reading"
    /\ bedStatus' = "ok"
    /\ UNCHANGED <<bedFile, lineNum, bedResults>>
    /\ UNCHANGED <<pipeVars, bufVars, nodeVars, annotVars>>
    /\ UNCHANGED <<stepVars, regionVars, winVars>>

BedNext == ReadBedLine \/ BedEndOfFile

BedSpec == BedInit /\ [][BedNext]_vars

\* ------------------------------------------------------- ParseBed claims

IsBlankLine(line) == line = <<(<<>>)>>

\* a line of exactly three columns chrom, start, end
IsBedRecord(line) ==
    /\ Len(line) = 3
    /\ line[1] # <<>>
    /\ SimpleAtoi(line[2]).ok
    /\ SimpleAtoi(line[3]).ok

\* the regions of the three-column lines among lines, in order
RECURSIVE BedRegionsOf(_)
BedRegionsOf(lines) ==
    IF lines = <<>> THEN <<>>
    ELSE LET line == Head(lines)
         IN  IF IsBedRecord(line)
             THEN <<(<<line[1], SimpleAtoi(line[2]).value,
                       SimpleAtoi(line[3]).value>>)>>
                     \o BedRegionsOf(Tail(lines))
             ELSE BedRegionsOf(Tail(lines))

\* C16: while every line read is blank or has exactly three columns, ParseBed
\* reports no error and holds one region per non-blank line, in file order
\* (a blank line is skipped); a non-blank line with another column count
\* makes it return InvalidArgument.
C16_ThreeColumnsBlankSkipped ==
    bedStatus # "idle" =>
        /\ (\A i \in 1..Len(bedFile) :
                IsBlankLine(bedFile[i]) \/ IsBedRecord(bedFile[i]))
              => /\ bedStatus \in {"reading", "ok"}
                 /\ bedResults = BedRegionsOf(bedFile)
        /\ (bedFile # <<>>
              /\ ~IsBlankLine(bedFile[Len(bedFile)])
              /\ Len(bedFile[Len(bedFile)]) # 3)
              => bedStatus = "InvalidArgument"

\* =========================================================== BuildWindows

\* the reference: two contigs in the order of contig_ids, each ContigLen
\* bases long
Contigs == {"chrA", "chrB"}
contig_ids == "chrA" :> 0 @@ "chrB" :> 1
ContigLen == 400

\* input regions [start, end) on a contig of the reference
RegionSpans == {<<0, 100>>, <<50, 300>>}
InputRegions ==
    {[chrom |-> c, start |-> sp[1], end |-> sp[2]] :
        c \in Contigs, sp \in RegionSpans}

BwWindowLengths == {100 * i : i \in 1..MaxBwWindowUnits}
BwPctOverlaps == {0, 50, 99}
RegionPaddings == {0, 50}

\* outcomes of refRdr.RegionSequence: the sequence, a truncated reference,
\* any other error
LookupOutcomes == {"ok", "FailedPrecondition", "NotFound"}

\* RefWindow::Length
RegionLength(w) == w.end - w.start

\* WindowBuilder::PadWindow
PadWindow(w, regionPadding) ==
    LET currMax == ContigLen
        startUnderflows == w.start < regionPadding
        endOverflows ==
            w.end >= currMax \/ (currMax - w.end) < regionPadding
    IN  [w EXCEPT
            !.start = IF startUnderflows THEN 0 ELSE @ - regionPadding,
            !.end = IF endOverflows THEN currMax ELSE @ + regionPadding]

\* a RefWindow put into results: no sequence yet, windowIndex 0; lookup
\* notes what RegionSequence reported for it
NewWindow(chrom, start, end) ==
    [chrom |-> chrom, start |-> start, end |-> end,
     seq |-> FALSE, lookup |-> "none", windowIndex |-> 0]

\* the lambda Comparator
Comparator(r1, r2) ==
    IF r1.chrom # r2.chrom THEN contig_ids[r1.chrom] < contig_ids[r2.chrom]
    ELSE IF r1.start # r2.start THEN r1.start < r2.start
    ELSE r1.end < r2.end

\* std::sort with Comparator: every arrangement of the windows at the
\* positions idxs of ws in which no window precedes a smaller one; windows
\* that compare equal come in any order
RECURSIVE SortedOrders(_, _)
SortedOrders(ws, idxs) ==
    IF idxs = {} THEN {<<>>}
    ELSE LET least == {i \in idxs :
                          \A j \in idxs : ~Comparator(ws[j], ws[i])}
         IN  UNION {{<<ws[i]>> \o rest :
                        rest \in SortedOrders(ws, idxs \ {i})} : i \in least}

\* the for_each over the sorted results: SetWindowIndex(currWindowIdx++),
\* the counter starting at first
AssignIndices(ws, first) ==
    [i \in 1..Len(ws) |->
        [ws[i] EXCEPT !.windowIndex = (first + i - 1) % 2^SizeTBits]]

FailedLookups(ws) ==
    Cardinality({i \in 1..Len(ws) : ws[i].lookup \notin {"ok", "none"}})

\* the outcomes the lookup of the next window may have
NextOutcomes(ws) ==
    IF FailedLookups(ws) < MaxFailedLookups THEN LookupOutcomes ELSE {"ok"}

BuilderFrame ==
    /\ UNCHANGED <<pipeVars, bufVars, nodeVars, annotVars>>
    /\ UNCHANGED <<stepVars, regionVars, bedVars>>

WindowInit ==
    /\ \E n \in 0..MaxRegions :
          wb \in [regionPadding : RegionPaddings,
                  windowLength : BwWindowLengths,
                  pctWindowOverlap : BwPctOverlaps,
                  inputRegions : [1..n -> InputRegions],
                  skip_trunc_seqs : BOOLEAN]
    /\ regionIdx = 0
    /\ currWindowStart = 0
    /\ results = <<>>
    /\ bwPc = "enter"
    /\ bwStatus = "ok"
    /\ currWindowIdx = 0
    /\ bwCalls = 1
    /\ PipeIdle /\ BufIdle /\ NodeIdle /\ AnnotIdle
    /\ StepIdle /\ RegionIdle /\ BedIdle

\* entry of BuildWindows: the IsEmpty test, then the first region
BwEnter ==
    /\ bwPc = "enter"
    /\ IF wb.inputRegions = <<>>
       THEN /\ bwPc' = "returned"
            /\ bwStatus' = "FailedPrecondition"
            /\ UNCHANGED regionIdx
       ELSE /\ bwPc' = "region"
            /\ regionIdx' = 1
            /\ UNCHANGED bwStatus
    /\ UNCHANGED <<wb, currWindowStart, results, currWindowIdx, bwCalls>>
    /\ BuilderFrame

\* head of the for loop over inputRegions: pad the region, then either emit
\* it as one window or enter the slicing loop
BwRegion ==
    /\ bwPc = "region"
    /\ IF regionIdx > Len(wb.inputRegions)
       THEN /\ bwPc' = "sort"
            /\ UNCHANGED <<regionIdx, currWindowStart, results, bwStatus>>
       ELSE LET inRegion == wb.inputRegions[regionIdx]
                region == PadWindow(inRegion, wb.regionPadding)
                w == NewWindow(region.chrom, region.start, region.end)
            IN  IF RegionLength(region) <= wb.windowLength
                THEN /\ \E o \in NextOutcomes(results) :
                           IF o # "ok"
                           THEN /\ results' =
                                      Append(results, [w EXCEPT !.lookup = o])
                                /\ bwPc' = "returned"
                                /\ bwStatus' = o
                                /\ UNCHANGED regionIdx
                           ELSE /\ results' =
                                      Append(results, [w EXCEPT !.lookup = o,
                                                                !.seq = TRUE])
                                /\ regionIdx' = regionIdx + 1
                                /\ UNCHANGED <<bwPc, bwStatus>>
                     /\ UNCHANGED currWindowStart
                ELSE /\ currWindowStart' = region.start
                     /\ bwPc' = "slice"
                     /\ UNCHANGED <<regionIdx, results, bwStatus>>
    /\ UNCHANGED <<wb, currWindowIdx, bwCalls>>
    /\ BuilderFrame

\* one test of the while condition of the slicing loop and, when it holds,
\* one iteration.  A failed lookup that is neither skipped nor returned
\* reaches SetSequence(regResult.ValueOrDie()): ValueOrDie on an error
\* status either ends the process or hands out whatever the StatusOr holds,
\* which is then stored as the window's sequence.
BwSlice ==
    /\ bwPc = "slice"
    /\ LET inRegion == wb.inputRegions[regionIdx]
           maxWindowPos == inRegion.end
           stepSize == StepSize(wb.pctWindowOverlap, wb.windowLength)
           currWindowEnd == currWindowStart + wb.windowLength
           w == NewWindow(inRegion.chrom, currWindowStart, currWindowEnd)
       IN  IF ~(currWindowStart < maxWindowPos)
           THEN /\ regionIdx' = regionIdx + 1
                /\ bwPc' = "region"
                /\ UNCHANGED <<currWindowStart, results, bwStatus>>
           ELSE /\ stepSize = 0 => Len(results) < MaxBwResults
                /\ \E o \in NextOutcomes(results) :
                      IF o # "ok" /\ o = "FailedPrecondition"
                         /\ wb.skip_trunc_seqs
                      THEN /\ results' =
                                 Append(results, [w EXCEPT !.lookup = o])
                           /\ currWindowStart' = currWindowStart + stepSize
                           /\ UNCHANGED <<bwPc, bwStatus>>
                      ELSE IF o # "ok" /\ ~wb.skip_trunc_seqs
                      THEN /\ results' =
                                 Append(results, [w EXCEPT !.lookup = o])
                           /\ bwPc' = "returned"
                           /\ bwStatus' = o
                           /\ UNCHANGED currWindowStart
                      ELSE IF o # "ok"
                      THEN \/ /\ results' =
                                    Append(results, [w EXCEPT !.lookup = o])
                              /\ bwPc' = "died"
                              /\ bwStatus' = o
                              /\ UNCHANGED currWindowStart
                           \/ /\ results' =
                                    Append(results, [w EXCEPT !.lookup = o,
                                                              !.seq = TRUE])
                              /\ currWindowStart' = currWindowStart + stepSize
                              /\ UNCHANGED <<bwPc, bwStatus>>
                      ELSE /\ results' =
                                 Append(results, [w EXCEPT !.lookup = o,
                                                           !.seq = TRUE])
                           /\ currWindowStart' = currWindowStart + stepSize
                           /\ UNCHANGED <<bwPc, bwStatus>>
                /\ UNCHANGED regionIdx
    /\ UNCHANGED <<wb, currWindowIdx, bwCalls>>
    /\ BuilderFrame

\* after the for loop: sort, number the windows from the static counter,
\* return the list
BwSort ==
    /\ bwPc = "sort"
    /\ \E sorted \in SortedOrders(results, 1..Len(results)) :
          results' = AssignIndices(sorted, currWindowIdx)
    /\ currWindowIdx' = (currWindowIdx + Len(results)) % 2^SizeTBits
    /\ bwPc' = "returned"
    /\ bwStatus' = "ok"
    /\ UNCHANGED <<wb, regionIdx, currWindowStart, bwCalls>>
    /\ BuilderFrame

\* the next BuildWindows call on the builder in the same process: its
\* locals are fresh, the static counter is not
BwCallAgain ==
    /\ bwPc = "returned"
    /\ bwStatus = "ok"
    /\ bwCalls < MaxBuildCalls
    /\ bwCalls' = bwCalls + 1
    /\ bwPc' = "enter"
    /\ results' = <<>>
    /\ regionIdx' = 0
    /\ currWindowStart' = 0
    /\ UNCHANGED <<wb, bwStatus, currWindowIdx>>
    /\ BuilderFrame

WindowNext == BwEnter \/ BwRegion \/ BwSlice \/ BwSort \/ BwCallAgain

WindowSpec == WindowInit /\ [][WindowNext]_vars

\* BuildWindows runs on one thread that keeps executing
FairWindowSpec == WindowSpec /\ WF_vars(WindowNext)

\* --------------------------------------------------- BuildWindows claims

\* (contigID, start, end) of r1 does not come after that of r2
KeyNotAfter(r1, r2) == ~Comparator(r2, r1)

\* C13: every BuildWindows call that returns a list, a second or later call
\* in the process included, returns it non-decreasing in
\* (contigID, start, end), the window at list position i carrying
\* windowIndex i, so that the indices are 0..N-1.
C13_SortedAndIndexedFromZero ==
    (bwPc = "returned" /\ bwStatus = "ok") =>
        /\ \A i \in 1..(Len(results) - 1) :
              KeyNotAfter(results[i], results[i + 1])
        /\ \A i \in 1..Len(results) : results[i].windowIndex = i - 1

\* C14: a window whose lookup reports FailedPrecondition is, with
\* skipTruncSeq set, left out of the returned list while building goes on,
\* in a sliced region and in a single-window region alike; without
\* skipTruncSeq BuildWindows returns that error and no list.
C14_TruncatedSkippedOrFatal ==
    bwPc # "idle" =>
        LET truncated == {i \in 1..Len(results) :
                             results[i].lookup = "FailedPrecondition"}
        IN  /\ (wb.skip_trunc_seqs /\ bwPc = "returned")
                  => /\ bwStatus # "FailedPrecondition"
                        \/ wb.inputRegions = <<>>
                     /\ truncated = {}
            /\ (~wb.skip_trunc_seqs /\ truncated # {})
                  => bwPc = "returned" /\ bwStatus = "FailedPrecondition"

\* the BuildWindows call is over: it returned or the process ended
BwOver == bwPc \in {"returned", "died"}

\* a step that runs one iteration of the slicing loop and stays in the loop
\* moves currWindowStart forward
SliceAdvances ==
    (bwPc = "slice" /\ bwPc' = "slice" /\ results' # results)
        => currWindowStart' > currWindowStart

\* C21: BuildWindows terminates for every configuration with pctOverlap in
\* 0..99 and windowLength >= 100 and every finite region list: each
\* iteration of the slicing loop, on the normal path and on the
\* skip-truncated path, strictly increases the current window start, and
\* every call comes to its end.
C21_SlicingTerminates ==
    /\ [][SliceAdvances]_vars
    /\ (bwPc = "enter") ~> BwOver

\* C22: in the slicing loop a failed reference lookup ends in the window
\* being skipped or in the error status being returned, whatever the error
\* kind and skipTruncSeq are; the sequence of a failed lookup is never read
\* and stored into a window.
C22_FailedLookupSkippedOrReturned ==
    bwPc # "idle" =>
        /\ bwPc # "died"
        /\ \A i \in 1..Len(results) :
              results[i].lookup \notin {"ok", "none"} =>
                  /\ ~results[i].seq
                  /\ \/ results[i].lookup = "FailedPrecondition"
                        /\ wb.skip_trunc_seqs
                     \/ /\ bwPc = "returned"
                        /\ bwStatus = results[i].lookup
                        /\ i = Len(results)

\* ----------------------------------------- RequiredBufferWindows claims

FlankOf(p) == Max(p.maxIndelLength, p.windowLength)
StepOf(p) == StepSize(p.pctOverlap, p.windowLength)
Returned == bufPc = "returned" /\ StepOf(params) > 0

\* C6 as amended: for a positive step, B is three times the ceiling of
\* max(maxIndelLen, windowLen) / stepSize: B is a multiple of 3 and B/3 is
\* the least integer q with q * stepSize >= max(maxIndelLen, windowLen).
C6_ThreeTimesCeiling ==
    Returned =>
        /\ bufWindows % 3 = 0
        /\ (bufWindows \div 3) * StepOf(params) >= FlankOf(params)
        /\ (bufWindows \div 3 - 1) * StepOf(params) < FlankOf(params)

\* C6 as stated: for a positive step, B is the ceiling of the whole quotient
\* 3 * max(maxIndelLen, windowLen) / stepSize: the least integer B with
\* B * stepSize >= 3 * max(maxIndelLen, windowLen).
C6_CeilingOfWholeQuotient ==
    Returned =>
        /\ bufWindows * StepOf(params) >= 3 * FlankOf(params)
        /\ (bufWindows - 1) * StepOf(params) < 3 * FlankOf(params)

C6_Witness ==
    /\ Returned
    /\ params.maxIndelLength > params.windowLength
    /\ FlankOf(params) % StepOf(params) # 0
    /\ bufWindows >= 6

\* ==================================================================== Node

\* reserved identities of the source and sink sentinels
MOCK_SOURCE_ID == 0
MOCK_SINK_ID == MaxNodeID
NodeIDs == 0..MaxNodeID

ALL_EDGE_KINDS == <<"FF", "FR", "RF", "RR">>
EdgeKinds == {ALL_EDGE_KINDS[i] : i \in 1..Len(ALL_EDGE_KINDS)}

\* an Edge is <<destination identity, kind>>
DestinationID(e) == e[1]
Kind(e) == e[2]
KindRank(k) == CHOOSE i \in 1..Len(ALL_EDGE_KINDS) : ALL_EDGE_KINDS[i] = k

\* strand of the source end of an edge kind
SrcDirection(e) == IF Kind(e) \in {"FF", "FR"} THEN "FWD" ELSE "REV"

\* Edge::operator<, lexicographic over (destination identity, kind)
EdgeLess(e1, e2) ==
    \/ DestinationID(e1) < DestinationID(e2)
    \/ /\ DestinationID(e1) = DestinationID(e2)
       /\ KindRank(Kind(e1)) < KindRank(Kind(e2))

IsMockID(id) == id = MOCK_SOURCE_ID \/ id = MOCK_SINK_ID

\* std::sort of a vector of edges: insertion of each element in turn
RECURSIVE InsertSorted(_, _)
InsertSorted(sorted, e) ==
    IF sorted = <<>> THEN <<e>>
    ELSE IF EdgeLess(e, Head(sorted)) THEN <<e>> \o sorted
    ELSE <<Head(sorted)>> \o InsertSorted(Tail(sorted), e)

RECURSIVE SortEdges(_)
SortEdges(edges) ==
    IF edges = <<>> THEN <<>>
    ELSE InsertSorted(SortEdges(Tail(edges)), Head(edges))

\* the elements of the hash set in the order its iterators give them, which
\* is unspecified: some order
RECURSIVE IterationOrder(_)
IterationOrder(set) ==
    IF set = {} THEN <<>>
    ELSE LET e == CHOOSE x \in set : TRUE
         IN  <<e>> \o IterationOrder(set \ {e})

\* size_t subtraction
SizeTSub(a, b) == (a - b) % (2 ^ SizeTBits)

\* Node::Node, edge fields only
NewNode(id) ==
    [nodeID |-> id, edgeSet |-> {}, orderedEdges |-> <<>>,
     numMockEdges |-> 0, numSelfEdges |-> 0]

EmplaceEdgeNoSort(n, dest_id, k) ==
    LET e == <<dest_id, k>>
        inserted == e \notin n.edgeSet
    IN  [n EXCEPT
            !.numMockEdges = IF IsMockID(dest_id) THEN @ + 1 ELSE @,
            !.numSelfEdges = IF dest_id = n.nodeID THEN @ + 1 ELSE @,
            !.edgeSet = @ \union {e},
            !.orderedEdges = IF inserted THEN Append(@, e) ELSE @]

\* Node::EmplaceEdge
EmplaceEdge(n, dest_id, k) ==
    LET e == <<dest_id, k>>
        inserted == e \notin n.edgeSet
    IN  [n EXCEPT
            !.numMockEdges = IF IsMockID(dest_id) THEN @ + 1 ELSE @,
            !.numSelfEdges = IF dest_id = n.nodeID THEN @ + 1 ELSE @,
            !.edgeSet = @ \union {e},
            !.orderedEdges = IF inserted THEN SortEdges(Append(@, e)) ELSE @]

\* Node::EraseEdge(dest_id, k)
EraseEdge(n, dest_id, k) ==
    LET e == <<dest_id, k>>
        rest == n.edgeSet \ {e}
    IN  IF e \in n.edgeSet
        THEN [n EXCEPT !.edgeSet = rest,
                       !.orderedEdges = SortEdges(IterationOrder(rest))]
        ELSE n

\* Node::EraseEdge(dest_id): EraseEdge(dest_id, ek) for the first i kinds of
\* ALL_EDGE_KINDS, in order
RECURSIVE EraseEdgeKinds(_, _, _)
EraseEdgeKinds(n, dest_id, i) ==
    IF i = 0 THEN n
    ELSE EraseEdge(EraseEdgeKinds(n, dest_id, i - 1), dest_id,
                   ALL_EDGE_KINDS[i])

EraseEdgeAllKinds(n, dest_id) ==
    EraseEdgeKinds(n, dest_id, Len(ALL_EDGE_KINDS))

\* Node::ClearEdges
ClearEdges(n) == [n EXCEPT !.orderedEdges = <<>>, !.edgeSet = {}]

\* Node::HasConnection
HasConnection(n, dest_id) ==
    \E i \in 1..Len(ALL_EDGE_KINDS) : <<dest_id, ALL_EDGE_KINDS[i]>> \in n.edgeSet

\* Node::HasSelfLoop
HasSelfLoop(n) == HasConnection(n, n.nodeID)

\* Node::NumEdges(Strand)
NumEdgesStrand(n, direction) ==
    Cardinality({e \in n.edgeSet :
                    /\ SrcDirection(e) = direction
                    /\ DestinationID(e) # MOCK_SOURCE_ID
                    /\ DestinationID(e) # MOCK_SINK_ID})

\* Node::NumEdges()
NumEdges(n) == SizeTSub(Cardinality(n.edgeSet), n.numMockEdges)

\* the for_each of FindMergeableNeighbours: the edges of the sequence, in
\* order, except those to the source or the sink sentinel
RECURSIVE CollectNeighbours(_)
CollectNeighbours(edges) ==
    IF edges = <<>> THEN <<>>
    ELSE LET e == Head(edges)
         IN  IF DestinationID(e) = MOCK_SOURCE_ID
                    \/ DestinationID(e) = MOCK_SINK_ID
             THEN CollectNeighbours(Tail(edges))
             ELSE <<e>> \o CollectNeighbours(Tail(edges))

\* Node::FindMergeableNeighbours
FindMergeableNeighbours(n) ==
    IF n.numSelfEdges # 0 \/ Len(n.orderedEdges) # 2 THEN <<>>
    ELSE CollectNeighbours(n.orderedEdges)

NodeInit ==
    /\ \E id \in NodeIDs : node = NewNode(id)
    /\ emplaceCalls = 0
    /\ lastCall = "new"
    /\ PipeIdle /\ BufIdle /\ BuilderIdle /\ AnnotIdle

CallEmplaceEdge(dest_id, k) ==
    /\ lastCall # "idle"
    /\ emplaceCalls < MaxEmplace
    /\ node' = EmplaceEdge(node, dest_id, k)
    /\ emplaceCalls' = emplaceCalls + 1
    /\ lastCall' = "EmplaceEdge"
    /\ UNCHANGED <<pipeVars, bufVars, builderVars, annotVars>>

CallEraseEdge(dest_id, k) ==
    /\ lastCall # "idle"
    /\ node' = EraseEdge(node, dest_id, k)
    /\ lastCall' = "EraseEdge"
    /\ UNCHANGED emplaceCalls
    /\ UNCHANGED <<pipeVars, bufVars, builderVars, annotVars>>

CallEraseEdgeAllKinds(dest_id) ==
    /\ lastCall # "idle"
    /\ node' = EraseEdgeAllKinds(node, dest_id)
    /\ lastCall' = "EraseEdgeAllKinds"
    /\ UNCHANGED emplaceCalls
    /\ UNCHANGED <<pipeVars, bufVars, builderVars, annotVars>>

CallClearEdges ==
    /\ lastCall # "idle"
    /\ node' = ClearEdges(node)
    /\ lastCall' = "ClearEdges"
    /\ UNCHANGED emplaceCalls
    /\ UNCHANGED <<pipeVars, bufVars, builderVars, annotVars>>

NodeNext ==
    \/ \E d \in NodeIDs, k \in EdgeKinds : CallEmplaceEdge(d, k)
    \/ \E d \in NodeIDs, k \in EdgeKinds : CallEraseEdge(d, k)
    \/ \E d \in NodeIDs : CallEraseEdgeAllKinds(d)
    \/ CallClearEdges

NodeSpec == NodeInit /\ [][NodeNext]_vars

\* ============================================ Node annotations, MergeBuddy

SampleLabels == {"TUMOR", "NORMAL"}
Strands == {"FWD"}
KmerLabels == {"TUMOR"}
Barcodes == {"", "bx1"}
HaplotypeIDs == {1}
\* the fields of ReadInfo the annotation updates read
ReadInfos == [label : SampleLabels, strand : Strands,
              tenxBarcode : Barcodes, haplotypeID : HaplotypeIDs]

\* A per-base vector is its length and a summary of its content: quals and
\* covs the number of reads pushed, labels the labels seen, hpData the number
\* of Update calls per (haplotype, label).
NoHPCounts == [c \in HaplotypeIDs \X SampleLabels |-> 0]

\* NodeHP(covs): zero counts over the positions of covs
NodeHP(covs) == [len |-> covs.len, counts |-> NoHPCounts]

\* NodeHP::IsEmpty, BarcodeSet::IsEmpty
HPIsEmpty(hp) == hp.len = 0
BXIsEmpty(bx) == bx = {}

\* BarcodeSet::IsBXMissing(label, barcode): on neither strand
IsBXMissing(bx, label, barcode) ==
    \A s \in Strands : <<label, s, barcode>> \notin bx

\* Node::Node(kmer) on top of the edge fields: mer has k bases, the per-base
\* vectors are of that length and empty of content, bxData and hpData empty
AnnotatedNode(n) ==
    n @@ [mer |-> KmerSize,
          quals |-> [len |-> KmerSize, reads |-> 0],
          covs |-> [len |-> KmerSize, reads |-> 0],
          labels |-> [len |-> KmerSize, seen |-> {}],
          bxData |-> {},
          hpData |-> [len |-> 0, counts |-> NoHPCounts]]

\* Node::UpdateQual: quals.Push of one read's qualities
UpdateQual(n) == [n EXCEPT !.quals.reads = @ + 1]

\* Node::UpdateLabel: labels.Push(label)
UpdateLabel(n, label) == [n EXCEPT !.labels.seen = @ \union {label}]

\* Node::UpdateCovInfo: covs.Update for the read, in either mode
UpdateCovInfo(n) == [n EXCEPT !.covs.reads = @ + 1]

\* Node::UpdateHPInfo without the IsBXMissing test
UpdateHPInfoUnguarded(n, ri) ==
    LET hp == IF HPIsEmpty(n.hpData) THEN NodeHP(n.covs) ELSE n.hpData
    IN  IF ri.tenxBarcode # ""
        THEN [n EXCEPT
                !.bxData = @ \union {<<ri.label, ri.strand, ri.tenxBarcode>>},
                !.hpData = [hp EXCEPT
                              !.counts[<<ri.haplotypeID, ri.label>>] = @ + 1]]
        ELSE [n EXCEPT !.hpData = hp]

\* Node::UpdateHPInfo
UpdateHPInfo(n, ri) ==
    LET hp == IF HPIsEmpty(n.hpData) THEN NodeHP(n.covs) ELSE n.hpData
    IN  IF ri.tenxBarcode # ""
           /\ IsBXMissing(n.bxData, ri.label, ri.tenxBarcode)
        THEN [n EXCEPT
                !.bxData = @ \union {<<ri.label, ri.strand, ri.tenxBarcode>>},
                !.hpData = [hp EXCEPT
                              !.counts[<<ri.haplotypeID, ri.label>>] = @ + 1]]
        ELSE [n EXCEPT !.hpData = hp]

\* whether UpdateHPInfo calls hpData.Update for this read
RecordsSupport(n, ri) ==
    ri.tenxBarcode # "" /\ IsBXMissing(n.bxData, ri.label, ri.tenxBarcode)

\* length of a per-base vector of a bases merged with one of b bases: the
\* k-1 overlap is dropped
MergedLength(a, b, k) == a + b - k + 1

\* NodeHP::MergeBuddy: the geometric rule of the per-base vectors, counts
\* added
MergeHP(hp, buddyHp, k) ==
    [len |-> MergedLength(hp.len, buddyHp.len, k),
     counts |-> [c \in HaplotypeIDs \X SampleLabels |->
                    hp.counts[c] + buddyHp.counts[c]]]

\* Node::MergeBuddy that takes over the buddy's edges as well
MergeBuddyWithEdges(n, buddy, k) ==
    LET reserved == MergedLength(n.mer, buddy.mer, k)
        covs == [len |-> MergedLength(n.covs.len, buddy.covs.len, k),
                 reads |-> n.covs.reads + buddy.covs.reads]
        ownHp == IF HPIsEmpty(n.hpData) THEN NodeHP(covs) ELSE n.hpData
        buddyHp == IF HPIsEmpty(buddy.hpData) THEN NodeHP(buddy.covs)
                   ELSE buddy.hpData
    IN  [n EXCEPT
            !.mer = reserved,
            !.quals = [len |-> MergedLength(@.len, buddy.quals.len, k),
                       reads |-> @.reads + buddy.quals.reads],
            !.covs = covs,
            !.labels = [len |-> MergedLength(@.len, buddy.labels.len, k),
                        seen |-> @.seen \union buddy.labels.seen],
            !.bxData = IF ~BXIsEmpty(@) \/ ~BXIsEmpty(buddy.bxData)
                       THEN @ \union buddy.bxData ELSE @,
            !.hpData = IF ~HPIsEmpty(@) \/ ~HPIsEmpty(buddy.hpData)
                       THEN MergeHP(ownHp, buddyHp, k) ELSE @,
            !.edgeSet = @ \union buddy.edgeSet,
            !.orderedEdges = SortEdges(@ \o buddy.orderedEdges)]

\* Node::MergeBuddy.  The direction and the reversal of the buddy decide on
\* which side and in which order its bases are attached, not how many.
\* hpData is looked at after covs has been merged, so an empty hpData is
\* materialised from the merged covs.
MergeBuddy(n, buddy, k) ==
    LET reserved == MergedLength(n.mer, buddy.mer, k)
        covs == [len |-> MergedLength(n.covs.len, buddy.covs.len, k),
                 reads |-> n.covs.reads + buddy.covs.reads]
        ownHp == IF HPIsEmpty(n.hpData) THEN NodeHP(covs) ELSE n.hpData
        buddyHp == IF HPIsEmpty(buddy.hpData) THEN NodeHP(buddy.covs)
                   ELSE buddy.hpData
    IN  [n EXCEPT
            !.mer = reserved,
            !.quals = [len |-> MergedLength(@.len, buddy.quals.len, k),
                       reads |-> @.reads + buddy.quals.reads],
            !.covs = covs,
            !.labels = [len |-> MergedLength(@.len, buddy.labels.len, k),
                        seen |-> @.seen \union buddy.labels.seen],
            !.bxData = IF ~BXIsEmpty(@) \/ ~BXIsEmpty(buddy.bxData)
                       THEN @ \union buddy.bxData ELSE @,
            !.hpData = IF ~HPIsEmpty(@) \/ ~HPIsEmpty(buddy.hpData)
                       THEN MergeHP(ownHp, buddyHp, k) ELSE @]

\* the nodes MergeBuddy meets: a node of the graph with or without an edge
GraphNodes(id) ==
    {NewNode(id)} \union {EmplaceEdge(NewNode(id), d, "FF") : d \in NodeIDs}

\* the node has identity 1; its buddy, identity 2, has an edge to it
AnnotInit ==
    /\ \E n \in GraphNodes(1) : kmerNode = AnnotatedNode(n)
    /\ buddyNode = AnnotatedNode(EmplaceEdge(NewNode(2), 1, "FF"))
    /\ mergeCalls = 0
    /\ hpUpdates = <<>>
    /\ annotCall = "ready"
    /\ PipeIdle /\ BufIdle /\ NodeIdle /\ BuilderIdle

CallUpdateQual ==
    /\ annotCall = "ready"
    /\ kmerNode.quals.reads < MaxReads
    /\ kmerNode' = UpdateQual(kmerNode)
    /\ UNCHANGED <<buddyNode, mergeCalls, hpUpdates, annotCall>>
    /\ UNCHANGED <<pipeVars, bufVars, nodeVars, builderVars>>

CallUpdateLabel(label) ==
    /\ annotCall = "ready"
    /\ kmerNode' = UpdateLabel(kmerNode, label)
    /\ UNCHANGED <<buddyNode, mergeCalls, hpUpdates, annotCall>>
    /\ UNCHANGED <<pipeVars, bufVars, nodeVars, builderVars>>

CallUpdateCovInfo ==
    /\ annotCall = "ready"
    /\ kmerNode.covs.reads < MaxReads
    /\ kmerNode' = UpdateCovInfo(kmerNode)
    /\ UNCHANGED <<buddyNode, mergeCalls, hpUpdates, annotCall>>
    /\ UNCHANGED <<pipeVars, bufVars, nodeVars, builderVars>>

CallUpdateHPInfo(ri) ==
    /\ annotCall = "ready"
    /\ kmerNode' = UpdateHPInfo(kmerNode, ri)
    /\ hpUpdates' = IF kmerNode'.hpData.counts # kmerNode.hpData.counts
                    THEN Append(hpUpdates, <<ri.label, ri.tenxBarcode>>)
                    ELSE hpUpdates
    /\ UNCHANGED <<buddyNode, mergeCalls, annotCall>>
    /\ UNCHANGED <<pipeVars, bufVars, nodeVars, builderVars>>

\* UpdateHPInfo on the node that is the buddy of the next merge
CallBuddyUpdateHPInfo(ri) ==
    /\ annotCall = "ready"
    /\ buddyNode' = UpdateHPInfo(buddyNode, ri)
    /\ UNCHANGED <<kmerNode, mergeCalls, hpUpdates, annotCall>>
    /\ UNCHANGED <<pipeVars, bufVars, nodeVars, builderVars>>

CallMergeBuddy ==
    /\ annotCall = "ready"
    /\ mergeCalls < MaxMerges
    /\ kmerNode' = MergeBuddy(kmerNode, buddyNode, KmerSize)
    /\ mergeCalls' = mergeCalls + 1
    /\ annotCall' = "merged"
    /\ UNCHANGED <<buddyNode, hpUpdates>>
    /\ UNCHANGED <<pipeVars, bufVars, nodeVars, builderVars>>

\* after the merge the caller removes the buddy from the graph; the next
\* buddy is another k-mer node
RemoveBuddy ==
    /\ annotCall = "merged"
    /\ buddyNode' =
          AnnotatedNode(EmplaceEdge(NewNode(buddyNode.nodeID),
                                    kmerNode.nodeID, "FF"))
    /\ annotCall' = "ready"
    /\ UNCHANGED <<kmerNode, mergeCalls, hpUpdates>>
    /\ UNCHANGED <<pipeVars, bufVars, nodeVars, builderVars>>

AnnotNext ==
    \/ CallUpdateQual
    \/ \E label \in KmerLabels : CallUpdateLabel(label)
    \/ CallUpdateCovInfo
    \/ \E ri \in ReadInfos : CallUpdateHPInfo(ri)
    \/ \E ri \in ReadInfos : CallBuddyUpdateHPInfo(ri)
    \/ CallMergeBuddy
    \/ RemoveBuddy

AnnotSpec == AnnotInit /\ [][AnnotNext]_vars

\* ----------------------------------------------------------- Node claims

SelfEdges(n) == {e \in n.edgeSet : DestinationID(e) = n.nodeID}
MockEdges(n) == {e \in n.edgeSet : IsMockID(DestinationID(e))}
RealEdges(n) == n.edgeSet \ MockEdges(n)

\* C7: numSelfEdges is the number of edges of edgeSet to the node's own
\* identity, and numMockEdges the number of edges of edgeSet to the source
\* or the sink sentinel.
C7_CountsMatchEdges ==
    lastCall # "idle" =>
        /\ node.numSelfEdges = Cardinality(SelfEdges(node))
        /\ node.numMockEdges = Cardinality(MockEdges(node))

\* C8: HasSelfLoop(), numSelfEdges > 0 and the presence in edgeSet of an
\* edge to the node's own identity are all true or all false.
C8_SelfLoopAgreement ==
    lastCall # "idle" =>
        /\ HasSelfLoop(node) <=> (node.numSelfEdges > 0)
        /\ (node.numSelfEdges > 0) <=> (SelfEdges(node) # {})

\* C9: NumEdges() is the number of edges of edgeSet to non-sentinel nodes,
\* NumEdges(Forward) + NumEdges(Reverse) equals it, and the subtraction
\* |edgeSet| - numMockEdges does not go below zero.
C9_NumEdgesCounts ==
    lastCall # "idle" =>
        /\ NumEdges(node) = Cardinality(RealEdges(node))
        /\ NumEdgesStrand(node, "FWD") + NumEdgesStrand(node, "REV")
               = NumEdges(node)
        /\ Cardinality(node.edgeSet) >= node.numMockEdges

\* C10: orderedEdges holds exactly the edges of edgeSet, each once, in
\* ascending (destination identity, kind) order.
C10_OrderedEdgesSorted ==
    lastCall # "idle" =>
        /\ Len(node.orderedEdges) = Cardinality(node.edgeSet)
        /\ {node.orderedEdges[i] : i \in 1..Len(node.orderedEdges)}
               = node.edgeSet
        /\ \A i \in 1..(Len(node.orderedEdges) - 1) :
               EdgeLess(node.orderedEdges[i], node.orderedEdges[i + 1])

\* an erase has just rebuilt orderedEdges from two or more remaining edges
\* after three EmplaceEdge calls
C10_Witness ==
    /\ lastCall = "EraseEdge"
    /\ emplaceCalls = 3
    /\ Len(node.orderedEdges) = 2
    /\ DestinationID(node.orderedEdges[1]) = DestinationID(node.orderedEdges[2])

\* C12: FindMergeableNeighbours returns a non-empty list exactly when the
\* node has exactly two edges to non-sentinel nodes and no edge to itself;
\* what it returns are the node's non-sentinel edges, at most two, and never
\* an edge to the source or the sink sentinel.
C12_MergeableNeighbours ==
    lastCall # "idle" =>
        LET found == FindMergeableNeighbours(node)
            foundSet == {found[i] : i \in 1..Len(found)}
        IN  /\ (found # <<>>) <=>
                  (Cardinality(RealEdges(node)) = 2 /\ SelfEdges(node) = {})
            /\ found # <<>> => foundSet = RealEdges(node)
            /\ Len(found) <= 2
            /\ \A e \in foundSet : ~IsMockID(DestinationID(e))

\* ------------------------------------------------ Node annotation claims

\* C11: after any sequence of annotation updates and MergeBuddy calls the
\* node's mer, quals, covs and labels have the same length, a non-empty
\* hpData has that length too, and each merge with a buddy of |B| bases
\* makes it |A| + |B| - k + 1, also when one of the two hpData is empty.
C11_LengthAlignment ==
    annotCall # "idle" =>
        /\ kmerNode.mer = KmerSize + mergeCalls * (buddyNode.mer - KmerSize + 1)
        /\ kmerNode.quals.len = kmerNode.mer
        /\ kmerNode.covs.len = kmerNode.mer
        /\ kmerNode.labels.len = kmerNode.mer
        /\ ~HPIsEmpty(kmerNode.hpData) => kmerNode.hpData.len = kmerNode.mer

\* number of Update calls hpData holds for a sample label
RECURSIVE SupportOver(_, _, _)
SupportOver(hp, label, ids) ==
    IF ids = {} THEN 0
    ELSE LET h == CHOOSE x \in ids : TRUE
         IN  hp.counts[<<h, label>>] + SupportOver(hp, label, ids \ {h})

BarcodesOf(bx, label) == {e \in bx : e[1] = label}

\* hpData.Update has been called at most once per (label, barcode), never
\* for an empty barcode, and, on a node that was never merged, the support
\* of a label does not exceed its recorded barcodes
SupportOncePerBarcode ==
    annotCall # "idle" =>
        /\ \A i, j \in 1..Len(hpUpdates) :
              i # j => hpUpdates[i] # hpUpdates[j]
        /\ \A i \in 1..Len(hpUpdates) : hpUpdates[i][2] # ""
        /\ mergeCalls = 0 =>
              \A label \in SampleLabels :
                 SupportOver(kmerNode.hpData, label, HaplotypeIDs)
                    = Cardinality(BarcodesOf(kmerNode.bxData, label))

\* an UpdateHPInfo step for a read whose (label, barcode) is already in
\* bxData, or whose barcode is empty, leaves bxData and the counts alone
RepeatedBarcodeIgnored ==
    \A ri \in ReadInfos :
        (CallUpdateHPInfo(ri) /\ ~RecordsSupport(kmerNode, ri)) =>
            /\ kmerNode'.bxData = kmerNode.bxData
            /\ kmerNode'.hpData.counts = kmerNode.hpData.counts

\* C18: over any sequence of UpdateHPInfo calls on a node, haplotype support
\* is recorded at most once per (sample label, barcode): a call whose pair is
\* already in bxData, or whose barcode is empty, changes neither bxData nor
\* the hpData counts.
C18_AtMostOncePerBarcode ==
    []SupportOncePerBarcode /\ [][RepeatedBarcodeIgnored]_vars

\* both labels have had their barcode recorded on a node never merged
C18_Witness ==
    /\ annotCall = "ready"
    /\ mergeCalls = 0
    /\ Len(hpUpdates) = Cardinality(SampleLabels)
    /\ \A label \in SampleLabels : BarcodesOf(kmerNode.bxData, label) # {}

\* C19: a MergeBuddy call leaves the node's nodeID, edgeSet, orderedEdges,
\* numMockEdges and numSelfEdges as they were and does not modify the buddy;
\* only mer and the per-base annotations change.
C19_MergeKeepsEdgesAndBuddy ==
    [][mergeCalls' = mergeCalls + 1 =>
          /\ kmerNode'.nodeID = kmerNode.nodeID
          /\ kmerNode'.edgeSet = kmerNode.edgeSet
          /\ kmerNode'.orderedEdges = kmerNode.orderedEdges
          /\ kmerNode'.numMockEdges = kmerNode.numMockEdges
          /\ kmerNode'.numSelfEdges = kmerNode.numSelfEdges
          /\ buddyNode' = buddyNode
          /\ kmerNode'.mer # kmerNode.mer]_vars

\* a node with an edge to a sentinel has just been merged with a buddy that
\* carries barcodes
C19_Witness ==
    /\ annotCall = "merged"
    /\ kmerNode.numMockEdges = 1
    /\ kmerNode.orderedEdges # <<>>
    /\ buddyNode.orderedEdges # <<>>
    /\ buddyNode.bxData # {}
    /\ kmerNode.mer > KmerSize

\* ------------------------------------------------------- pipeline claims

\* the index sequence 0, 1, ..., n-1
UpTo(n) == [k \in 1..n |-> k - 1]

\* done[0 .. k] inclusive, clipped to the array
DoneThrough(k) == \A j \in 0..Min(k, numTotal - 1) : doneWindows[j]

\* some record was dequeued before the record of a lower window index
OutOfOrderArrival ==
    \E a, b \in 1..Len(arrived) : a < b /\ arrived[a] > arrived[b]

\* C1: the FlushWindow calls made so far are strictly increasing in idx and,
\* when there is one, the first of them is FlushWindow(0).
C1_OrderedFlush ==
    /\ \A k \in 1..(Len(flushCalls) - 1) : flushCalls[k] < flushCalls[k + 1]
    /\ flushCalls # <<>> => flushCalls[1] = 0

C1_Witness ==
    /\ Len(flushCalls) >= 3
    /\ OutOfOrderArrival

\* C2: every FlushWindow(i) call is made with all of the windows
\* 0 .. min(i + B, N-1) already marked done.  doneWindows only grows and a
\* call is recorded in the step that makes it, so the statement about the
\* moment of the call is the statement about every recorded call.
C2_FlushAfterLookAhead ==
    \A k \in 1..Len(flushCalls) : DoneThrough(flushCalls[k] + numBufWindows)

\* C3: each time the driver is back at wait_dequeue after handling a
\* completion, no window is flushable: all(done[0 .. idxToFlush + B]) is
\* false for the current idxToFlush.
C3_NothingFlushableAtWait ==
    (pc = "loop" /\ numDone > 0 /\ LoopContinues(numDone, numTotal))
        => ~DoneThrough(idxToFlush + numBufWindows)

\* the arrival order of the scenario, and its first k arrivals
ScenarioOrder == <<2, 0, 1, 4, 3>>
InScenario(k) ==
    /\ numTotal = 5 /\ numBufWindows = 1
    /\ arrived = SubSeq(ScenarioOrder, 1, k)

\* C4: with N = 5, B = 1 and arrivals 2, 0, 1, 4, 3 nothing is flushed
\* before completion 1 has arrived (the third arrival), the calls made are
\* always a prefix of 0, 1, 2, 3, 4, and after the fifth arrival all of
\* FlushWindow(0) .. FlushWindow(4) have been made.
C4_ScenarioFlushes ==
    \A k \in 0..5 : InScenario(k) =>
        /\ flushCalls = UpTo(Len(flushCalls))
        /\ k < 3 => flushCalls = <<>>
        /\ k = 5 => flushCalls = UpTo(5)

\* C5 (state part): FlushAll is not called inside the loop; after the exit
\* exactly N records were dequeued, one per window, FlushAll was called
\* once, with numDone = N and with every FlushWindow call already made;
\* and the FlushWindow calls are 0 .. idxToFlush-1, each once, so that the
\* windows idxToFlush .. N-1 are the ones left to FlushAll.
DriverCompletion ==
    /\ flushCalls = UpTo(idxToFlush)
    /\ idxToFlush <= numTotal
    /\ pc = "loop" => flushAllCalls = <<>>
    /\ pc = "exited" =>
          /\ numDone = numTotal
          /\ Len(arrived) = numTotal
          /\ {arrived[k] : k \in 1..Len(arrived)} = 0..(numTotal - 1)
          /\ resultQueue = <<>>
          /\ flushAllCalls = << <<numTotal, Len(flushCalls)>> >>

\* the driver reaches the end of RunPipeline
Terminates == <>(pc = "exited")

\* C5: the driver dequeues exactly N completions and then terminates,
\* calling FlushAll exactly once, after the N-th completion and after every
\* FlushWindow call; no window index is skipped or flushed twice.
C5_CompletesAndFlushesAll == []DriverCompletion /\ Terminates

C5_Witness ==
    /\ pc = "exited"
    /\ numTotal >= 4
    /\ OutOfOrderArrival
    /\ Len(flushCalls) > 0
    /\ Len(flushCalls) < numTotal

\* C20: at every point of the driver loop idxToFlush <= numDone <= N, and
\* every FlushWindow call made has an index below N.
C20_FlushIndexInRange ==
    pc # "idle" =>
        /\ idxToFlush <= numDone
        /\ numDone <= numTotal
        /\ \A k \in 1..Len(flushCalls) : flushCalls[k] < numTotal

\* the driver has flushed the last window of the list inside the loop
C20_Witness ==
    /\ numTotal >= 3
    /\ flushCalls # <<>>
    /\ flushCalls[Len(flushCalls)] = numTotal - 1
    /\ OutOfOrderArrival

====
